---- MODULE Spec2Model ----
(***************************************************************************)
(* Model of src/src/Emitter.ts (class Emitter).                            *)
(*                                                                         *)
(* The Emitter is single-threaded and synchronous, but listeners are       *)
(* callbacks that may re-enter the Emitter, so one public call is a chain  *)
(* of nested calls.  The model keeps an explicit call stack and executes   *)
(* the code in small steps; a top-level (user) call is only possible when  *)
(* the stack is empty.  The Map `events` holds REFERENCES to arrays, and   *)
(* Array.prototype.forEach in emit iterates the live array, so arrays are  *)
(* heap objects with identity (variable `arrays`).                         *)
(***************************************************************************)
EXTENDS Naturals, Integers, Sequences, FiniteSets, TLC

(***************************************************************************)
(* Bounds of the model.                                                    *)
(***************************************************************************)
\* number of top-level calls the user makes on the instance
MaxOps == 3
\* the same, for the programs that only use one callable (SpecLeak)
MaxOpsLeak == 4
\* the same, for the programs that use two callables on one event (SpecDup)
MaxOpsDup == 4
\* depth of the call stack (a listener that re-enters without end overflows
\* the JS stack; the model stops exploring at this depth)
MaxDepth == 8
\* number of top-level calls of the program that only registers (SpecReg)
MaxOpsReg == 12
\* the same, for the program that has an event named '' (SpecEmpty)
MaxOpsEmpty == 3
\* the same, for the program with a callable that throws (SpecThrow)
MaxOpsThrow == 4
\* the same, for the program whose callables emit and register (SpecNest)
MaxOpsNest == 4
\* the same, for the program that assigns the static and constructs other
\* instances (SpecStatic)
MaxOpsStatic == 4
\* number of other Emitter instances the program constructs
MaxPeers == 2

(***************************************************************************)
(* Values.                                                                 *)
(***************************************************************************)
\* static defaultMaxListeners = 10
DefaultMaxListeners == 10
NoEv == "-"
NoFn == "-"
\* InternalEventNames (typings/emitter-types.ts) and one user event
InternalNames == {"newListener", "removeListener"}
Names == InternalNames \cup {"e1"}

\* user callables that only record that they were called
Plain == {"f1", "f2"}
\* user callables that re-enter the emitter:
\*   "rem"  calls  this.off("e1", f2)
\*   "add"  calls  this.on("e1", f2)
Scripted == {"rem", "add"}
Fns == Plain \cup Scripted
\* user callables of the other programs:
\*   "nest" calls  this.emit("e1", "y")
\*   "thr"  throws an Error
Emitting == {"nest"}
Throwing == {"thr"}

\* A listener handle.  id = 0: the user callable fn itself.  id > 0: the
\* closure onceListener created by the id-th call of _wrapOnceListener(ev, fn).
Fn(f) == [fn |-> f, ev |-> NoEv, id |-> 0]
NoL == [fn |-> NoFn, ev |-> NoEv, id |-> 0]
IsWrapper(l) == l.id > 0
IsPlain(l) == l.id = 0 /\ l.fn \in Plain

\* The rest arguments `...data` of an emission: a user payload, or the pair
\* (eventName, listener) of an internal event.
Payloads == {"x", "y"}
UserData(d) == [d |-> d, ev |-> NoEv, l |-> NoL]
InternalData(e, l) == [d |-> "-", ev |-> e, l |-> l]

VARIABLES
    events,              \* this.events: Map, as the sequence of [key, arr] in insertion order
    arrays,              \* heap of Array objects; an array reference is an index (0: a fresh [])
    maxListeners,        \* this.maxListeners
    hasWarned,           \* this.hasWarnedAboutPotentialMemoryLeak
    defaultMaxListeners, \* static Emitter.defaultMaxListeners
    warnings,            \* what console.warn received: sequence of [ev, count]
    stack,               \* call stack of the running top-level call (<<>>: idle)
    wrappers,            \* the onceListener closures created so far (index = id)
    log,                 \* every invocation of a listener: [l, data, by]
    ret,                 \* what the emit call that returned last returned
    hist,                \* the top-level calls made so far
    prog,                \* the program using the instance: the names, callables and
                         \* payloads it has, and how many calls it makes (never changes)
    act,                 \* the call or step the last transition performed
    peers                \* this.maxListeners of the other Emitter instances the program
                         \* has constructed, in construction order

vars == <<events, arrays, maxListeners, hasWarned, defaultMaxListeners, warnings,
          stack, wrappers, log, ret, hist, prog, act, peers>>

(***************************************************************************)
(* Map and Array primitives.                                               *)
(***************************************************************************)
MapHas(m, k) == \E i \in 1..Len(m) : m[i].key = k
MapGet(m, k) == LET i == CHOOSE i \in 1..Len(m) : m[i].key = k IN m[i].arr
MapSet(m, k, a) ==
    IF MapHas(m, k)
    THEN [i \in 1..Len(m) |-> IF m[i].key = k THEN [key |-> k, arr |-> a] ELSE m[i]]
    ELSE Append(m, [key |-> k, arr |-> a])
MapDelete(m, k) == SelectSeq(m, LAMBDA en : en.key # k)
MapKeys(m) == [i \in 1..Len(m) |-> m[i].key]

\* Array.prototype.indexOf, 1-based; 0 stands for -1
IndexOf(a, l) ==
    IF \E i \in 1..Len(a) : a[i] = l
    THEN CHOOSE i \in 1..Len(a) : a[i] = l /\ \A j \in 1..(i - 1) : a[j] # l
    ELSE 0
\* a.splice(i, 1)
Splice(a, i) == [j \in 1..(Len(a) - 1) |-> IF j < i THEN a[j] ELSE a[j + 1]]
\* the contents of the array behind a reference
Deref(h, r) == IF r = 0 THEN <<>> ELSE h[r]

(***************************************************************************)
(* Private helpers of the class.                                           *)
(***************************************************************************)
\* _getListeners: this.events.get(eventName) || []   (the reference)
GetListenersRef(m, e) == IF MapHas(m, e) THEN MapGet(m, e) ELSE 0
\* ... and the contents it refers to
GetListeners(m, h, e) == Deref(h, GetListenersRef(m, e))

\* (mutation of RemoveListenerArr: lastIndexOf instead of indexOf)
RemoveListenerArrLast(listeners, listener) ==
    IF \E i \in 1..Len(listeners) : listeners[i] = listener
    THEN LET index == CHOOSE i \in 1..Len(listeners) :
                         /\ listeners[i] = listener
                         /\ \A j \in (i + 1)..Len(listeners) : listeners[j] # listener
         IN  [j \in 1..(Len(listeners) - 1) |->
                 IF j < index THEN listeners[j] ELSE listeners[j + 1]]
    ELSE listeners
\* _removeListener: the array after  index = indexOf(listener); splice(index, 1)
RemoveListenerArr(listeners, listener) ==
    LET index == IndexOf(listeners, listener)
    IN IF index > 0 THEN Splice(listeners, index) ELSE listeners

(***************************************************************************)
(* Introspection (public, pure).                                           *)
(***************************************************************************)
eventNames == MapKeys(events)
listeners(e) == GetListeners(events, arrays, e)
listenerCount(e) == Len(GetListeners(events, arrays, e))

(***************************************************************************)
(* Call-stack frames.  Every frame has the same fields; a frame uses the   *)
(* ones its operation has.  snap and log0 are history fields (the array's  *)
(* contents and the length of the log when the call was made): the code    *)
(* does not have them and no action reads them.                            *)
(***************************************************************************)
NoData == UserData("-")

\* emit: `const listeners = this._getListeners(eventName)` and the state of
\* listeners.forEach: the index i it visits next and the length len it read
\* when it started
EmitFrame(e, data, ref, h, lg) ==
    [op |-> "emit", ev |-> e, l |-> NoL, data |-> data, arr |-> ref, i |-> 1,
     len |-> Len(Deref(h, ref)), pc |-> "forEach",
     snap |-> Deref(h, ref), log0 |-> Len(lg)]

\* addListener, waiting for its newListener emission to return
AddFrame(e, l, before, lg) ==
    [op |-> "addListener", ev |-> e, l |-> l, data |-> NoData, arr |-> 0, i |-> 0,
     len |-> 0, pc |-> "store", snap |-> before, log0 |-> Len(lg)]

\* a running listener (a scripted user callable, or a onceListener closure)
ListenerFrame(l, data, lg) ==
    [op |-> "listener", ev |-> NoEv, l |-> l, data |-> data, arr |-> 0, i |-> 0,
     len |-> 0, pc |-> "body", snap |-> <<>>, log0 |-> Len(lg)]

Top == stack[Len(stack)]
Pop(stk) == SubSeq(stk, 1, Len(stk) - 1)
SetTop(stk, f) == [stk EXCEPT ![Len(stk)] = f]
Idle == stack = <<>>

Act(o, e, l) == [op |-> o, ev |-> e, l |-> l]
Step(o) == Act(o, NoEv, NoL)

(***************************************************************************)
(* The methods, as calls made from a caller whose stack is `base` (<<>>   *)
(* for a top-level call).  Each defines events', arrays', stack' and act'. *)
(***************************************************************************)

\* emit, lines 114-118: fetch the listeners array and start forEach.
CallEmit(base, e, data) ==
    /\ Len(base) < MaxDepth
    /\ stack' = Append(base, EmitFrame(e, data, GetListenersRef(events, e), arrays, log))
    /\ act' = Act("emit", e, NoL)
    /\ UNCHANGED <<events, arrays>>

\* (mutation of CallAddListener: the listener is stored before newListener is
\* emitted)
CallAddListenerStoreFirst(base, e, l) ==
    /\ Len(base) + 1 < MaxDepth
    /\ arrays' = Append(arrays, Append(GetListeners(events, arrays, e), l))
    /\ events' = MapSet(events, e, Len(arrays) + 1)
    /\ stack' = base \o
           << AddFrame(e, l, GetListeners(events, arrays, e), log),
              EmitFrame("newListener", InternalData(e, l),
                        GetListenersRef(events', "newListener"), arrays', log) >>
    /\ act' = Act("addListener", e, l)

\* addListener, line 139: _emitInternalEvent('newListener', eventName, listener),
\* which is this.emit('newListener', eventName, listener) (lines 40-50).
CallAddListener(base, e, l) ==
    /\ Len(base) + 1 < MaxDepth
    /\ stack' = base \o
           << AddFrame(e, l, GetListeners(events, arrays, e), log),
              EmitFrame("newListener", InternalData(e, l),
                        GetListenersRef(events, "newListener"), arrays, log) >>
    /\ act' = Act("addListener", e, l)
    /\ UNCHANGED <<events, arrays>>

\* removeListener, lines 244-259.  Nothing follows the emission of line 255,
\* so the call leaves no frame of its own under the emission's.
CallRemoveListener(base, e, l) ==
    LET ref == GetListenersRef(events, e)
        old == Deref(arrays, ref)
    IN  /\ act' = Act("removeListener", e, l)
        /\ IF Len(old) > 0
           THEN /\ Len(base) < MaxDepth
                /\ arrays' = [arrays EXCEPT ![ref] = RemoveListenerArr(old, l)]
                /\ events' = MapSet(events, e, ref)
                /\ stack' = Append(base,
                          EmitFrame("removeListener", InternalData(e, l),
                                    GetListenersRef(events', "removeListener"),
                                    arrays', log))
           ELSE /\ stack' = base
                /\ UNCHANGED <<events, arrays>>

\* (mutation of CallPrependListener: the listener is put at the end)
CallPrependListenerAtEnd(base, e, l) ==
    /\ arrays' = Append(arrays, Append(GetListeners(events, arrays, e), l))
    /\ events' = MapSet(events, e, Len(arrays) + 1)
    /\ stack' = base
    /\ act' = Act("prependListener", e, l)
\* prependListener, lines 203-217.
CallPrependListener(base, e, l) ==
    LET old == GetListeners(events, arrays, e)
        nextListeners == IF Len(old) > 0 THEN <<l>> \o old ELSE old \o <<l>>
    IN  /\ arrays' = Append(arrays, nextListeners)
        /\ events' = MapSet(events, e, Len(arrays) + 1)
        /\ stack' = base
        /\ act' = Act("prependListener", e, l)

\* (mutation of WrapOnceListener: the listener is registered unwrapped)
WrapOnceListenerNoWrap(e, f) == Fn(f)
\* _wrapOnceListener, lines 71-81: a new closure each time it is called
WrapOnceListener(e, f) == [fn |-> f, ev |-> e, id |-> Len(wrappers) + 1]

\* (mutation of ForEachHas: the last index is never visited)
ForEachHasOffByOne(a, k) == k < Len(a)
\* Array.prototype.forEach visits index k only if the array (still) has it
ForEachHas(a, k) == k <= Len(a)
\* emit, line 123: listeners.length > 0, read when forEach has finished
EmitResult(a) == Len(a) > 0
\* addListener, line 141: this._getListeners(eventName).concat(listener)
Concat(a, l) == Append(a, l)
\* (mutation of LeakCheck: the latch is not consulted)
LeakCheckNoLatch(max, count, warned) == max > 0 /\ count > max
\* (mutation of LeakCheck: warns when the count reaches the threshold)
LeakCheckAtThreshold(max, count, warned) == max > 0 /\ count >= max /\ ~warned
\* addListener, lines 144-148: the condition of the memory-leak warning
LeakCheck(max, count, warned) == max > 0 /\ count > max /\ ~warned

\* (mutation of Throw: emit catches the error and goes on with the next listener)
ThrowCaught(stk) == Pop(stk)
\* emit, lines 119-121, and every other caller of a listener: no try/catch, an
\* error thrown by a listener unwinds every frame up to the top-level caller
Throw(stk) == <<>>
\* removeAllListeners, line 289: if (eventName), which '' does not pass
Truthy(e) == e # ""

\* listener.apply(this, data) made by the frame at depth `by`, the caller's
\* stack being `base`.  A callable that only records the call returns at once.
Invoke(base, l, data, by) ==
    /\ log' = Append(log, [l |-> l, data |-> data, by |-> by])
    /\ IF IsPlain(l)
       THEN stack' = base
       ELSE /\ Len(base) < MaxDepth
            /\ stack' = Append(base, ListenerFrame(l, data, log))

(***************************************************************************)
(* Steps of the running call.                                              *)
(***************************************************************************)
\* emit, lines 119-121: one iteration of listeners.forEach
ForEachStep ==
    /\ ~Idle /\ Top.op = "emit" /\ Top.i <= Top.len
    /\ LET F == Top
           a == Deref(arrays, F.arr)
           base == SetTop(stack, [F EXCEPT !.i = F.i + 1])
       IN  IF ForEachHas(a, F.i)
           THEN /\ Invoke(base, a[F.i], F.data, Len(stack))
                /\ act' = Act("invoke", F.ev, a[F.i])
           ELSE /\ stack' = base
                /\ act' = Step("skip")
                /\ UNCHANGED log
    /\ UNCHANGED <<events, arrays, maxListeners, hasWarned, defaultMaxListeners,
                   warnings, wrappers, ret, hist, prog, peers>>

\* emit, line 123: return listeners.length > 0
EmitReturn ==
    /\ ~Idle /\ Top.op = "emit" /\ Top.i > Top.len
    /\ stack' = Pop(stack)
    /\ ret' = [ev |-> Top.ev, val |-> EmitResult(Deref(arrays, Top.arr)),
               had |-> Len(Top.snap) > 0]
    /\ act' = Act("emitReturn", Top.ev, NoL)
    /\ UNCHANGED <<events, arrays, maxListeners, hasWarned, defaultMaxListeners,
                   warnings, wrappers, log, hist, prog, peers>>

\* (mutation of AddListenerStore: the new array is built from the listeners
\* read before newListener was emitted)
AddListenerStoreStale ==
    /\ ~Idle /\ Top.op = "addListener"
    /\ LET e == Top.ev
           nextListeners == Concat(Top.snap, Top.l)
       IN  /\ arrays' = Append(arrays, nextListeners)
           /\ events' = MapSet(events, e, Len(arrays) + 1)
           /\ IF LeakCheck(maxListeners, Len(nextListeners), hasWarned)
              THEN /\ hasWarned' = TRUE
                   /\ warnings' = Append(warnings, [ev |-> e, count |-> Len(nextListeners)])
              ELSE UNCHANGED <<hasWarned, warnings>>
           /\ act' = Act("store", e, Top.l)
    /\ stack' = Pop(stack)
    /\ UNCHANGED <<maxListeners, defaultMaxListeners, wrappers, log, ret, hist, prog, peers>>

\* addListener, lines 141-159, after the newListener emission has returned
AddListenerStore ==
    /\ ~Idle /\ Top.op = "addListener"
    /\ LET e == Top.ev
           nextListeners == Concat(GetListeners(events, arrays, e), Top.l)
       IN  /\ arrays' = Append(arrays, nextListeners)
           /\ events' = MapSet(events, e, Len(arrays) + 1)
           /\ IF LeakCheck(maxListeners, Len(nextListeners), hasWarned)
              THEN /\ hasWarned' = TRUE
                   /\ warnings' = Append(warnings, [ev |-> e, count |-> Len(nextListeners)])
              ELSE UNCHANGED <<hasWarned, warnings>>
           /\ act' = Act("store", e, Top.l)
    /\ stack' = Pop(stack)
    /\ UNCHANGED <<maxListeners, defaultMaxListeners, wrappers, log, ret, hist, prog, peers>>

\* the body of a running listener: a onceListener closure first removes itself
\* (line 76); "rem", "add" and "nest" make their one call and return; "thr"
\* throws, and the call of the user ends with act.op = "throw"
ListenerBody ==
    /\ ~Idle /\ Top.op = "listener" /\ Top.pc = "body"
    /\ LET F == Top
       IN  CASE IsWrapper(F.l) ->
                  CallRemoveListener(SetTop(stack, [F EXCEPT !.pc = "apply"]), F.l.ev, F.l)
             [] ~IsWrapper(F.l) /\ F.l.fn = "rem" ->
                  CallRemoveListener(Pop(stack), "e1", Fn("f2"))
             [] ~IsWrapper(F.l) /\ F.l.fn = "add" ->
                  CallAddListener(Pop(stack), "e1", Fn("f2"))
             [] ~IsWrapper(F.l) /\ F.l.fn \in Emitting ->
                  CallEmit(Pop(stack), "e1", UserData("y"))
             [] ~IsWrapper(F.l) /\ F.l.fn \in Throwing ->
                  /\ stack' = Throw(stack)
                  /\ act' = Act("throw", NoEv, F.l)
                  /\ UNCHANGED <<events, arrays>>
    /\ UNCHANGED <<maxListeners, hasWarned, defaultMaxListeners, warnings, wrappers,
                   log, ret, hist, prog, peers>>

\* onceListener, line 77: listener.apply(this, data), its last statement
OnceApply ==
    /\ ~Idle /\ Top.op = "listener" /\ Top.pc = "apply"
    /\ Invoke(Pop(stack), Fn(Top.l.fn), Top.data, Len(stack))
    /\ act' = Act("apply", Top.l.ev, Top.l)
    /\ UNCHANGED <<events, arrays, maxListeners, hasWarned, defaultMaxListeners,
                   warnings, wrappers, ret, hist, prog, peers>>

(***************************************************************************)
(* Top-level calls of the user.                                            *)
(***************************************************************************)
H(o, e, l, d, n) == [op |-> o, ev |-> e, l |-> l, d |-> d, n |-> n]
CanCall == Idle /\ Len(hist) < prog.calls
\* a program that uses everything the model has
General ==
    [names |-> Names, fns |-> Fns, payloads |-> Payloads, sizes |-> {0, 1, 2},
     calls |-> MaxOps, default |-> DefaultMaxListeners]
\* a program with one callable and two event names, that has set
\* Emitter.defaultMaxListeners = 1 and makes more calls
OneCallable ==
    [names |-> {"e1", "newListener"}, fns |-> {"f1"}, payloads |-> {"x"},
     sizes |-> {0, 1, 2}, calls |-> MaxOpsLeak, default |-> 1]
\* a program with two callables that do not re-enter the emitter and one event
\* name, that makes more calls
TwoCallables ==
    [names |-> {"e1"}, fns |-> Plain, payloads |-> {"x"}, sizes |-> {0},
     calls |-> MaxOpsDup, default |-> DefaultMaxListeners]

\* a program that only registers one callable on one event, many times
Registrar ==
    [names |-> {"e1"}, fns |-> {"f1"}, payloads |-> {"x"}, sizes |-> {0},
     calls |-> MaxOpsReg, default |-> DefaultMaxListeners]
\* a program with an event named '' (a string like any other for the Map)
EmptyName ==
    [names |-> {"", "e1"}, fns |-> {"f1"}, payloads |-> {"x"}, sizes |-> {0},
     calls |-> MaxOpsEmpty, default |-> DefaultMaxListeners]
\* a program with a callable that throws
Thrower ==
    [names |-> {"e1"}, fns |-> {"f1"} \cup Throwing, payloads |-> {"x"}, sizes |-> {0},
     calls |-> MaxOpsThrow, default |-> DefaultMaxListeners]
\* a program whose callables emit and register while an emission is running
Reentrant ==
    [names |-> {"e1"}, fns |-> {"f1", "add"} \cup Emitting, payloads |-> {"x"}, sizes |-> {0},
     calls |-> MaxOpsNest, default |-> DefaultMaxListeners]
\* a program that assigns Emitter.defaultMaxListeners and constructs other instances
Static ==
    [names |-> {"e1"}, fns |-> {"f1"}, payloads |-> {"x"}, sizes |-> {1, 2},
     calls |-> MaxOpsStatic, default |-> DefaultMaxListeners]

\* on / addListener (lines 134-175)
On ==
    /\ CanCall
    /\ \E e \in prog.names, f \in prog.fns :
          /\ CallAddListener(<<>>, e, Fn(f))
          /\ hist' = Append(hist, H("on", e, Fn(f), "-", 0))
    /\ UNCHANGED <<maxListeners, hasWarned, defaultMaxListeners, warnings, wrappers,
                   log, ret, prog, peers>>

\* once (lines 185-193)
Once ==
    /\ CanCall
    /\ \E e \in prog.names, f \in prog.fns :
          /\ CallAddListener(<<>>, e, WrapOnceListener(e, f))
          /\ wrappers' = Append(wrappers, WrapOnceListener(e, f))
          /\ hist' = Append(hist, H("once", e, Fn(f), "-", 0))
    /\ UNCHANGED <<maxListeners, hasWarned, defaultMaxListeners, warnings, log, ret, prog, peers>>

\* prependListener (lines 203-217)
PrependListener ==
    /\ CanCall
    /\ \E e \in prog.names, f \in prog.fns :
          /\ CallPrependListener(<<>>, e, Fn(f))
          /\ hist' = Append(hist, H("prependListener", e, Fn(f), "-", 0))
    /\ UNCHANGED <<maxListeners, hasWarned, defaultMaxListeners, warnings, wrappers,
                   log, ret, prog, peers>>

\* prependOnceListener (lines 227-234)
PrependOnceListener ==
    /\ CanCall
    /\ \E e \in prog.names, f \in prog.fns :
          /\ CallPrependListener(<<>>, e, WrapOnceListener(e, f))
          /\ wrappers' = Append(wrappers, WrapOnceListener(e, f))
          /\ hist' = Append(hist, H("prependOnceListener", e, Fn(f), "-", 0))
    /\ UNCHANGED <<maxListeners, hasWarned, defaultMaxListeners, warnings, log, ret, prog, peers>>

\* off / removeListener (lines 244-280), with a callable or with a onceListener
\* closure the user got from listeners() or from a newListener handler
Off ==
    /\ CanCall
    /\ \E e \in prog.names, l \in {Fn(f) : f \in prog.fns} \cup {wrappers[k] : k \in 1..Len(wrappers)} :
          /\ CallRemoveListener(<<>>, e, l)
          /\ hist' = Append(hist, H("off", e, l, "-", 0))
    /\ UNCHANGED <<maxListeners, hasWarned, defaultMaxListeners, warnings, wrappers,
                   log, ret, prog, peers>>

\* emit (lines 114-124)
Emit ==
    /\ CanCall
    /\ \E e \in prog.names, d \in prog.payloads :
          /\ CallEmit(<<>>, e, UserData(d))
          /\ hist' = Append(hist, H("emit", e, NoL, d, 0))
    /\ UNCHANGED <<maxListeners, hasWarned, defaultMaxListeners, warnings, wrappers,
                   log, ret, prog, peers>>

\* removeAllListeners(eventName) (lines 286-296: line 290, or line 292 when
\* eventName is '')
RemoveAllListenersOf ==
    /\ CanCall
    /\ \E e \in prog.names :
          /\ events' = IF Truthy(e) THEN MapDelete(events, e) ELSE <<>>
          /\ act' = Act("removeAllListeners", e, NoL)
          /\ hist' = Append(hist, H("removeAllListeners", e, NoL, "-", 0))
    /\ UNCHANGED <<arrays, maxListeners, hasWarned, defaultMaxListeners, warnings,
                   stack, wrappers, log, ret, prog, peers>>

\* removeAllListeners() (line 292)
RemoveAllListeners ==
    /\ CanCall
    /\ events' = <<>>
    /\ act' = Act("removeAllListeners", NoEv, NoL)
    /\ hist' = Append(hist, H("removeAllListeners", NoEv, NoL, "-", 0))
    /\ UNCHANGED <<arrays, maxListeners, hasWarned, defaultMaxListeners, warnings,
                   stack, wrappers, log, ret, prog, peers>>

\* setMaxListeners (lines 83-86)
SetMaxListeners ==
    /\ CanCall
    /\ \E n \in prog.sizes :
          /\ maxListeners' = n
          /\ act' = Act("setMaxListeners", NoEv, NoL)
          /\ hist' = Append(hist, H("setMaxListeners", NoEv, NoL, "-", n))
    /\ UNCHANGED <<events, arrays, hasWarned, defaultMaxListeners, warnings, stack,
                   wrappers, log, ret, prog, peers>>

\* (mutation of SetDefaultMaxListeners: the instance reads the static each time,
\* so that assigning it changes the threshold of the instance as well)
SetDefaultMaxListenersLive ==
    /\ CanCall
    /\ \E n \in prog.sizes :
          /\ defaultMaxListeners' = n
          /\ maxListeners' = n
          /\ act' = Act("setDefault", NoEv, NoL)
          /\ hist' = Append(hist, H("setDefault", NoEv, NoL, "-", n))
    /\ UNCHANGED <<events, arrays, hasWarned, warnings, stack,
                   wrappers, log, ret, prog, peers>>

\* Emitter.defaultMaxListeners = n (line 25: a public static field)
SetDefaultMaxListeners ==
    /\ CanCall
    /\ \E n \in prog.sizes :
          /\ defaultMaxListeners' = n
          /\ act' = Act("setDefault", NoEv, NoL)
          /\ hist' = Append(hist, H("setDefault", NoEv, NoL, "-", n))
    /\ UNCHANGED <<events, arrays, maxListeners, hasWarned, warnings, stack,
                   wrappers, log, ret, prog, peers>>

\* new Emitter() for another instance (constructor, line 36)
ConstructPeer ==
    /\ CanCall /\ Len(peers) < MaxPeers
    /\ peers' = Append(peers, defaultMaxListeners)
    /\ act' = Act("constructPeer", NoEv, NoL)
    /\ hist' = Append(hist, H("constructPeer", NoEv, NoL, "-", 0))
    /\ UNCHANGED <<events, arrays, maxListeners, hasWarned, defaultMaxListeners, warnings,
                   stack, wrappers, log, ret, prog>>

\* setMaxListeners (lines 83-86) called on another instance
PeerSetMaxListeners ==
    /\ CanCall
    /\ \E k \in 1..Len(peers), n \in prog.sizes :
          /\ peers' = [peers EXCEPT ![k] = n]
          /\ act' = Act("peerSetMaxListeners", NoEv, NoL)
          /\ hist' = Append(hist, H("peerSetMaxListeners", NoEv, NoL, "-", n))
    /\ UNCHANGED <<events, arrays, maxListeners, hasWarned, defaultMaxListeners, warnings,
                   stack, wrappers, log, ret, prog>>

\* constructor (lines 34-38); Emitter.defaultMaxListeners (line 25) is a public
\* static field the program may have assigned before it constructs the instance
Construct(p) ==
    /\ prog = p
    /\ defaultMaxListeners = p.default
    /\ events = <<>>
    /\ maxListeners = defaultMaxListeners
    /\ hasWarned = FALSE
    /\ arrays = <<>>
    /\ warnings = <<>>
    /\ stack = <<>>
    /\ wrappers = <<>>
    /\ log = <<>>
    /\ ret = [ev |-> NoEv, val |-> FALSE, had |-> FALSE]
    /\ hist = <<>>
    /\ act = Step("new")
    /\ peers = <<>>

Init == Construct(General)
InitLeak == Construct(OneCallable)
InitDup == Construct(TwoCallables)
InitReg == Construct(Registrar)
InitEmpty == Construct(EmptyName)
InitThrow == Construct(Thrower)
InitNest == Construct(Reentrant)
InitStatic == Construct(Static)

Next ==
    \/ On
    \/ Once
    \/ PrependListener
    \/ PrependOnceListener
    \/ Off
    \/ Emit
    \/ RemoveAllListenersOf
    \/ RemoveAllListeners
    \/ SetMaxListeners
    \/ ForEachStep
    \/ EmitReturn
    \/ AddListenerStore
    \/ ListenerBody
    \/ OnceApply

\* the steps of a program that only calls on, once and setMaxListeners
NextReg ==
    \/ On
    \/ Once
    \/ SetMaxListeners
    \/ EmitReturn
    \/ AddListenerStore

\* the steps of a program that also uses the static and other instances
NextStatic ==
    \/ Next
    \/ SetDefaultMaxListeners
    \/ ConstructPeer
    \/ PeerSetMaxListeners

Spec == Init /\ [][Next]_vars
SpecLeak == InitLeak /\ [][Next]_vars
SpecDup == InitDup /\ [][Next]_vars
SpecReg == InitReg /\ [][NextReg]_vars
SpecEmpty == InitEmpty /\ [][Next]_vars
SpecThrow == InitThrow /\ [][Next]_vars
SpecNest == InitNest /\ [][Next]_vars
SpecStatic == InitStatic /\ [][NextStatic]_vars

(***************************************************************************)
(* Properties.                                                             *)
(***************************************************************************)
Range(q) == {q[k] : k \in DOMAIN q}
Last(q) == q[Len(q)]
\* the log written since the call of frame F was made
Since(F) == SubSeq(log, F.log0 + 1, Len(log))
\* the listeners the emission at stack position p has invoked itself, in order
\* (not the ones that nested calls invoked meanwhile)
Invoked(p) ==
    LET own == SelectSeq(Since(stack[p]), LAMBDA en : en.by = p)
    IN  [k \in DOMAIN own |-> own[k].l]
\* an emission whose forEach has finished and that is about to return
Finished(p) == p >= 1 /\ p = Len(stack) /\ stack[p].op = "emit" /\ stack[p].i > stack[p].len

\* C1: when the listeners of e are callables that neither re-enter the emitter
\* nor throw, emit(e, args) invokes exactly the listeners of listeners(e) as it
\* was at the call, each once, in sequence order, each with args, and nothing
\* else runs in between; when the emission ends it has invoked all of them.
C1_EmitInvokesAllInOrder ==
    \A p \in 1..Len(stack) :
        LET F == stack[p]
        IN  (F.op = "emit" /\ \A k \in DOMAIN F.snap : IsPlain(F.snap[k]))
            => /\ F.i - 1 <= Len(F.snap)
               /\ Since(F) = [k \in 1..(F.i - 1) |->
                                 [l |-> F.snap[k], data |-> F.data, by |-> p]]
               /\ Finished(p) => F.i - 1 = Len(F.snap)

\* two different callables registered for a user event, both invoked, in order
C1_Witness ==
    /\ Finished(Len(stack))
    /\ Top.ev = "e1"
    /\ Top.snap = <<Fn("f2"), Fn("f1")>>
    /\ Invoked(Len(stack)) = <<Fn("f2"), Fn("f1")>>
    /\ \A k \in DOMAIN log : log[k].data = UserData("y")

\* a listener that can only remove listeners: a callable that does nothing, a
\* onceListener closure around one, or "rem"
OnlyRemoves(l) == l.fn \in Plain \cup {"rem"}

\* C2: the listeners an emission invokes are fixed when emit is called: when
\* the listeners running during the emission only remove listeners, every
\* listener that was in the sequence at the start of the emission has been
\* invoked exactly once, in order, when the emission ends.
C2_EmissionSetFixed ==
    \A p \in 1..Len(stack) :
        (Finished(p) /\ \A k \in DOMAIN stack[p].snap : OnlyRemoves(stack[p].snap[k]))
        => Invoked(p) = stack[p].snap

\* C3: emit returns true exactly when the event had at least one listener
\* when emit was called.
C3_EmitReturnsHadListeners == ret.val = ret.had

\* the invocations of the user callable f recorded so far
CallsOf(f) == SelectSeq(log, LAMBDA en : en.l = Fn(f))
\* the history is once(e, f); emit(e, x), possibly followed by emit(e, y), with
\* f a callable that does not re-enter the emitter
OnceThenEmits ==
    /\ Len(hist) \in {2, 3}
    /\ hist[1].op = "once" /\ IsPlain(hist[1].l)
    /\ \A k \in 2..Len(hist) : hist[k].op = "emit" /\ hist[k].ev = hist[1].ev

\* C4: after once(e, f) on an event with no other listeners (f a callable that
\* does not re-enter the emitter), emit(e, x) and then emit(e, y) invoke f
\* exactly once, with x; the onceListener closure is no longer registered when
\* f runs, and listenerCount(e) is 0 after the first emission.
C4_OnceFiresOnce ==
    OnceThenEmits
    => LET calls == CallsOf(hist[1].l.fn)
       IN  /\ Len(calls) <= 1
           /\ \A k \in DOMAIN calls : calls[k].data = UserData(hist[2].d)
           /\ calls # <<>> => wrappers[1] \notin Range(listeners(hist[1].ev))
           /\ Idle => Len(calls) = 1 /\ listenerCount(hist[1].ev) = 0

\* both emissions have returned, the second one with another payload
C4_Witness ==
    /\ Idle
    /\ OnceThenEmits
    /\ hist[1].ev = "e1" /\ hist[2].d = "x" /\ Len(hist) = 3 /\ hist[3].d = "y"
    /\ Len(CallsOf("f1")) = 1
    /\ ret.ev = "e1"

\* C5: addListener(e, g) emits newListener with (e, g) before it stores g.
\* While the call is pending and only callables that do not re-enter the
\* emitter have run since it was made: e's sequence is still the one from
\* before the call, the handlers that have run are the newListener listeners,
\* in order, each with (e, g), and all of them have run when the emission has
\* returned.  When the call returns g is the last entry of e's sequence.
C5_NewListenerBeforeStore ==
    /\ \A p \in 1..Len(stack) :
          LET F == stack[p]
          IN  (F.op = "addListener" /\ \A k \in DOMAIN Since(F) : IsPlain(Since(F)[k].l))
              => /\ listeners(F.ev) = F.snap
                 /\ Len(Since(F)) <= listenerCount("newListener")
                 /\ \A k \in DOMAIN Since(F) :
                       /\ Since(F)[k].l = listeners("newListener")[k]
                       /\ Since(F)[k].data = InternalData(F.ev, F.l)
                 /\ p = Len(stack) => Len(Since(F)) = listenerCount("newListener")
    /\ act.op = "store"
       => /\ listenerCount(act.ev) > 0
          /\ Last(listeners(act.ev)) = act.l

\* a newListener handler has just been invoked by on('e1', f2), and e1 had a
\* listener before the call
C5_Witness ==
    /\ Len(stack) = 2
    /\ stack[1].op = "addListener" /\ stack[1].ev = "e1" /\ stack[1].l = Fn("f2")
    /\ stack[1].snap = <<Fn("f1")>>
    /\ Since(stack[1]) = <<[l |-> Fn("f1"), data |-> InternalData("e1", Fn("f2")), by |-> 2]>>
    /\ listeners("e1") = <<Fn("f1")>>

\* C6: prependListener(e, g) and prependOnceListener emit newListener with
\* (e, listener) before they change e's sequence: right after the call is made
\* the newListener emission is running.
C6_PrependEmitsNewListener ==
    act.op = "prependListener"
    => /\ ~Idle
       /\ Top.op = "emit" /\ Top.ev = "newListener"
       /\ Top.data = InternalData(act.ev, act.l)

\* the emission of removeListener with (e, l) has just been started, the
\* stack being stk and the log lg
EmittingRemoveListener(stk, lg, e, l) ==
    /\ stk # <<>>
    /\ LET T == stk[Len(stk)]
       IN  /\ T.op = "emit" /\ T.ev = "removeListener" /\ T.i = 1
           /\ T.data = InternalData(e, l) /\ T.log0 = Len(lg)

\* C7: removeListener(e, l) emits removeListener with (e, l) if and only if
\* the call removed an occurrence of l from e's sequence.
C7_RemoveEmitsIffRemoved ==
    [][ act'.op = "removeListener"
        => (EmittingRemoveListener(stack', log', act'.ev, act'.l)
              <=> GetListeners(events', arrays', act'.ev)
                    # GetListeners(events, arrays, act'.ev)) ]_vars

\* the number of occurrences of l in the sequence q
Occurrences(q, l) == Cardinality({k \in DOMAIN q : q[k] = l})
\* q without its entry at index i
Without(q, i) == SubSeq(q, 1, i - 1) \o SubSeq(q, i + 1, Len(q))

\* C8: duplicates are kept and removed one at a time.  A registration adds
\* one occurrence; removeListener(e, l) removes the occurrence of l with the
\* lowest index and nothing else, so the count drops by 1 when l is present
\* and by 0 when it is not, and the other entries keep their order.
C8_RemovesFirstOccurrence ==
    [][ LET e == act'.ev
            l == act'.l
            old == GetListeners(events, arrays, e)
            new == GetListeners(events', arrays', e)
        IN  /\ act'.op = "removeListener"
               => IF l \in Range(old)
                  THEN /\ Len(new) = Len(old) - 1
                       /\ \E i \in DOMAIN old :
                             /\ old[i] = l
                             /\ \A j \in 1..(i - 1) : old[j] # l
                             /\ new = Without(old, i)
                  ELSE new = old
            /\ act'.op \in {"store", "prependListener"}
               => /\ Occurrences(new, l) = Occurrences(old, l) + 1
                  /\ Len(new) = Len(old) + 1 ]_vars

\* on(e1, f1); on(e1, f2); on(e1, f1); off(e1, f1) has removed the first f1 only
C8_Witness ==
    /\ act.op = "removeListener" /\ act.ev = "e1" /\ act.l = Fn("f1")
    /\ Len(hist) = 4 /\ \A k \in 1..3 : hist[k].op = "on"
    /\ hist[1].l = Fn("f1") /\ hist[2].l = Fn("f2") /\ hist[3].l = Fn("f1")
    /\ listeners("e1") = <<Fn("f2"), Fn("f1")>>

\* C9: eventNames() contains a name if and only if listenerCount of that name
\* is at least 1.
C9_EventNamesHaveListeners ==
    \A e \in Names : (e \in Range(eventNames)) <=> (listenerCount(e) >= 1)

\* C10: at most one memory-leak warning is ever reported by an instance, and
\* once hasWarnedAboutPotentialMemoryLeak is true it stays true (and nothing
\* more is reported).
C10_WarnsAtMostOnce ==
    [][ /\ Len(warnings') <= 1
        /\ hasWarned => (hasWarned' /\ warnings' = warnings) ]_vars

\* a listener was registered above the threshold after the warning, and no
\* second warning was reported
C10_Witness ==
    /\ hasWarned /\ Len(warnings) = 1
    /\ act.op = "store"
    /\ maxListeners > 0
    /\ listenerCount(act.ev) > warnings[1].count
    /\ listenerCount(act.ev) > maxListeners

\* the calls made so far are all on / once
OnlyRegisters(h) == \A k \in DOMAIN h : h[k].op \in {"on", "once"}

\* C11: addListener / on / once always append the listener and return; the
\* store reports one warning and sets the latch exactly when, after the append,
\* maxListeners > 0, listenerCount(e) > maxListeners and the latch is not set.
\* With the default threshold 10 the 11th registration on one event warns and
\* the 12th does not; with maxListeners = 0 nothing ever warns.
C11_LeakWarningTrigger ==
    [][ LET e == act'.ev
            old == GetListeners(events, arrays, e)
            new == GetListeners(events', arrays', e)
            due == maxListeners > 0 /\ Len(new) > maxListeners /\ ~hasWarned
        IN  /\ act'.op = "store"
               => /\ new = Append(old, act'.l)
                  /\ stack' = Pop(stack)
                  /\ IF due
                     THEN /\ hasWarned'
                          /\ warnings' = Append(warnings, [ev |-> e, count |-> Len(new)])
                     ELSE /\ hasWarned' = hasWarned
                          /\ warnings' = warnings
            /\ maxListeners = 0 => warnings' = warnings
            /\ (OnlyRegisters(hist') /\ stack' = <<>>)
               => IF Len(hist') > DefaultMaxListeners
                  THEN warnings' = <<[ev |-> "e1", count |-> DefaultMaxListeners + 1]>>
                  ELSE warnings' = <<>> ]_vars

\* twelve registrations on e1 of a fresh instance: the 11th warned, the 12th
\* was stored without a second warning
C11_Witness ==
    /\ act.op = "store" /\ Idle
    /\ OnlyRegisters(hist) /\ Len(hist) = DefaultMaxListeners + 2
    /\ listenerCount("e1") = DefaultMaxListeners + 2
    /\ maxListeners = DefaultMaxListeners
    /\ warnings = <<[ev |-> "e1", count |-> DefaultMaxListeners + 1]>>

\* C12: prependListener / prependOnceListener report the memory-leak warning
\* as addListener does: the step that prepends warns and sets the latch
\* exactly when maxListeners > 0, the new count exceeds maxListeners and the
\* latch is not set.
C12_PrependWarns ==
    [][ LET e == act'.ev
            new == GetListeners(events', arrays', e)
            due == maxListeners > 0 /\ Len(new) > maxListeners /\ ~hasWarned
        IN  act'.op = "prependListener"
            => IF due
               THEN /\ hasWarned'
                    /\ warnings' = Append(warnings, [ev |-> e, count |-> Len(new)])
               ELSE /\ hasWarned' = hasWarned
                    /\ warnings' = warnings ]_vars

\* the history is once(e, f) or prependOnceListener(e, f), then off(e, f) with
\* the callable f itself, possibly followed by emit(e, x); e is a user event
\* and f a callable that does not re-enter the emitter
OnceThenOff ==
    /\ Len(hist) \in {2, 3}
    /\ hist[1].op \in {"once", "prependOnceListener"} /\ IsPlain(hist[1].l)
    /\ hist[1].ev \notin InternalNames
    /\ hist[2].op = "off" /\ hist[2].ev = hist[1].ev /\ hist[2].l = hist[1].l
    /\ Len(hist) = 3 => hist[3].op = "emit" /\ hist[3].ev = hist[1].ev

\* C13: removeListener(e, f) with the original callable f removes the
\* registration that once(e, f) / prependOnceListener(e, f) made: the count
\* drops by 1 (to 0 here) and a later emit(e) does not invoke f.
C13_OffOriginalRemovesOnce ==
    OnceThenOff => listenerCount(hist[1].ev) = 0 /\ CallsOf(hist[1].l.fn) = <<>>

\* C14: removeAllListeners(e), for every event name e the program uses, leaves
\* listenerCount(e) = 0 and the sequence of every other event name unchanged;
\* removeAllListeners() leaves every count 0 and eventNames() empty; neither
\* changes maxListeners or the latch, and neither invokes a listener.
C14_RemoveAllFrame ==
    [][ act'.op = "removeAllListeners"
        => /\ maxListeners' = maxListeners
           /\ hasWarned' = hasWarned
           /\ log' = log /\ stack' = <<>>
           /\ IF act'.ev # NoEv
              THEN /\ GetListeners(events', arrays', act'.ev) = <<>>
                   /\ \A o \in prog.names \ {act'.ev} :
                         GetListeners(events', arrays', o) = GetListeners(events, arrays, o)
              ELSE /\ \A o \in prog.names : GetListeners(events', arrays', o) = <<>>
                   /\ MapKeys(events') = <<>> ]_vars

C16_RegistrationOrder ==
    [][ \A e \in prog.names :
          LET old == GetListeners(events, arrays, e)
              new == GetListeners(events', arrays', e)
          IN  IF act'.op = "store" /\ act'.ev = e
              THEN new = old \o <<act'.l>>
              ELSE IF act'.op = "prependListener" /\ act'.ev = e
              THEN new = <<act'.l>> \o old
              ELSE \/ new = old
                   \/ new = <<>>
                   \/ \E i \in DOMAIN old : new = Without(old, i) ]_vars

\* on(e1, f1); prependListener(e1, f2) gives [f2, f1]
C16_Witness ==
    /\ act.op = "prependListener" /\ Idle
    /\ Len(hist) = 2 /\ hist[1] = H("on", "e1", Fn("f1"), "-", 0)
    /\ hist[2] = H("prependListener", "e1", Fn("f2"), "-", 0)
    /\ listeners("e1") = <<Fn("f2"), Fn("f1")>>

RECURSIVE IsSubseq(_, _)
\* q is t without some of its entries
IsSubseq(q, t) ==
    IF q = <<>> THEN TRUE
    ELSE IF t = <<>> THEN FALSE
    ELSE IF Head(q) = Head(t) THEN IsSubseq(Tail(q), Tail(t))
    ELSE IsSubseq(q, Tail(t))

\* C17: a listener added to e by a listener that runs during an emission of e
\* is not invoked by that emission: what an emission invokes is always taken,
\* in order, from the sequence e had when the emission started.  It is invoked
\* by the next emit(e): an emit(e1) of the user that started with f2 in the
\* sequence of e1 (f2 is only ever registered by the callable add, during an
\* emission of e1) has invoked f2 when it returns.
C17_AddedDuringEmissionWaits ==
    /\ \A p \in 1..Len(stack) :
          stack[p].op = "emit" => IsSubseq(Invoked(p), stack[p].snap)
    /\ (Finished(1) /\ stack[1].ev = "e1" /\ Fn("f2") \in Range(stack[1].snap))
       => \E k \in DOMAIN Since(stack[1]) : Since(stack[1])[k].l = Fn("f2")

\* the calls of the user that registered the callable f
RegistrationsOf(f) ==
    {k \in DOMAIN hist :
        /\ hist[k].l = Fn(f)
        /\ hist[k].op \in {"on", "once", "prependListener", "prependOnceListener"}}

\* C18: a once-registration fires at most once, whatever happens later,
\* nested emissions and registrations during an emission included.  For a
\* callable f that only the user registers, and only with once /
\* prependOnceListener, f has been invoked at most as many times as it was
\* registered.
C18_OnceAtMostOnce ==
    \A f \in prog.fns \cap Plain :
       (\A k \in RegistrationsOf(f) : hist[k].op \in {"once", "prependOnceListener"})
       => Len(CallsOf(f)) <= Cardinality(RegistrationsOf(f))

\* C19: Emitter.defaultMaxListeners is read at construction only.  An
\* instance starts with maxListeners equal to the static's value at that
\* moment; assigning the static afterwards changes the maxListeners of no
\* constructed instance, and the leak warning keeps using the instance's own
\* maxListeners; only setMaxListeners(n) changes it, to n, for the instance it
\* is called on and for no other.
C19_DefaultReadAtConstruction ==
    [][ /\ (\A k \in DOMAIN hist' : hist'[k].op # "setMaxListeners")
           => maxListeners' = prog.default
        /\ act'.op = "constructPeer"
           => peers' = Append(peers, defaultMaxListeners)
        /\ act'.op = "setMaxListeners"
           => maxListeners' = Last(hist').n
        /\ act'.op # "setMaxListeners"
           => maxListeners' = maxListeners
        /\ act'.op \notin {"constructPeer", "peerSetMaxListeners"}
           => peers' = peers
        /\ act'.op = "peerSetMaxListeners"
           => \E k \in DOMAIN peers : peers' = [peers EXCEPT ![k] = Last(hist').n]
        /\ act'.op # "setDefault"
           => defaultMaxListeners' = defaultMaxListeners
        /\ act'.op = "store"
           => (warnings' # warnings
               <=> /\ maxListeners > 0 /\ ~hasWarned
                   /\ Len(GetListeners(events', arrays', act'.ev)) > maxListeners) ]_vars

\* Emitter.defaultMaxListeners = 1 after the instance was constructed, then
\* another instance constructed and two listeners registered on this one: the
\* other instance has threshold 1, this one still 10 and has not warned
C19_Witness ==
    /\ Idle /\ act.op = "store"
    /\ Len(hist) = 4 /\ hist[1].op = "setDefault" /\ hist[2].op = "constructPeer"
    /\ defaultMaxListeners = 1 /\ peers = <<1>>
    /\ maxListeners = DefaultMaxListeners
    /\ listenerCount("e1") = 2 /\ warnings = <<>>

\* the history is once(newListener, add); on(e1, g) or once(e1, g), where add
\* calls this.on("e1", f2) and g does not re-enter the emitter
AddFromNewListener ==
    /\ Len(hist) = 2
    /\ hist[1] = H("once", "newListener", Fn("add"), "-", 0)
    /\ hist[2].op \in {"on", "once"} /\ hist[2].ev = "e1" /\ IsPlain(hist[2].l)

\* C20: no registration is lost when a newListener handler registers
\* listeners itself.  The step that stores for addListener(e, g) appends g to
\* the sequence e has at that moment, so what handlers added to e during the
\* call stays, in front of g.  After once(newListener, add); on(e1, g), with
\* add adding f2 to e1, the sequence of e1 is [f2, g]: the count has grown by
\* 2 from 0.
C20_NoLostRegistration ==
    [][ act'.op = "store"
        => LET F == Top
               cur == GetListeners(events, arrays, F.ev)
               new == GetListeners(events', arrays', F.ev)
           IN  /\ new = cur \o <<F.l>>
               /\ (\E k \in 0..Len(cur) : SubSeq(cur, 1, k) = F.snap)
                  => new = F.snap \o SubSeq(cur, Len(F.snap) + 1, Len(cur)) \o <<F.l>>
               /\ (AddFromNewListener' /\ stack' = <<>>)
                  => /\ F.snap = <<>>
                     /\ Len(new) = 2
                     /\ new[1] = Fn("f2")
                     /\ new[2].fn = hist'[2].l.fn ]_vars

\* once(newListener, add); on(e1, f1) has returned with [f2, f1] on e1
C20_Witness ==
    /\ AddFromNewListener /\ Idle /\ act.op = "store"
    /\ hist[2].op = "on" /\ hist[2].l = Fn("f1")
    /\ listeners("e1") = <<Fn("f2"), Fn("f1")>>
    /\ listenerCount("newListener") = 0

====
